---- MODULE Spec2Model ----
(***************************************************************************)
(* Batch TIFF -> JPEG converter (batch_image_converter.py).                *)
(*                                                                         *)
(* The model follows main() and convert_tiff_to_jpeg() statement by        *)
(* statement.  File names are sequences of characters so that glob         *)
(* matching, Path.stem and the "<stem>.jpg" destination are computed, not  *)
(* assumed.  The filesystem is a function from paths (sequences of names)  *)
(* to nodes.  Images are small pixel buffers with a Pillow mode.           *)
(*                                                                         *)
(* Environment assumptions: POSIX path semantics (the script's shebang),   *)
(* glob matching is case-sensitive, no symbolic links, a single process,   *)
(* and writing to the console does not fail.                               *)
(***************************************************************************)
EXTENDS Integers, Sequences, FiniteSets, TLC

VARIABLES
    pc,               \* position of the program
    argv,             \* command line: [input_folder, output, quality]
    quality,          \* args.quality after parsing (0 while unparsed)
    output_path,      \* Path of the output folder (<<>> while unset)
    fs,               \* filesystem: path -> node
    fs0,              \* the filesystem before the run
    ext_i,            \* index of the next pattern of tiff_extensions
    tiff_files,       \* the enumeration built by the glob loop
    i,                \* number of loop iterations finished
    converted_count,
    error_count,
    stdout,           \* the per-file lines printed so far
    calls,            \* filesystem calls made so far: <<operation, path>>
    img,              \* image under normalisation (image specification)
    enc               \* buffer handed to the JPEG encoder (image specification)

vars == << pc, argv, quality, output_path, fs, fs0, ext_i, tiff_files, i,
           converted_count, error_count, stdout, calls, img, enc >>

----------------------------------------------------------------------------
(* Bounds of the model *)

MaxFiles == 2

MaxPixels == 2

\* entries of the initial filesystem in the argument specification
MaxFilesArgs == 1

----------------------------------------------------------------------------
(* Strings are sequences of one-character strings. *)

Digits == {"0", "1", "2", "3", "4", "5", "6", "7", "8", "9"}

DigitVal(c) ==
    CASE c = "0" -> 0 [] c = "1" -> 1 [] c = "2" -> 2 [] c = "3" -> 3
      [] c = "4" -> 4 [] c = "5" -> 5 [] c = "6" -> 6 [] c = "7" -> 7
      [] c = "8" -> 8 [] c = "9" -> 9

EndsWith(s, suf) ==
    /\ Len(s) >= Len(suf)
    /\ SubSeq(s, Len(s) - Len(suf) + 1, Len(s)) = suf

\* str.rfind("."), 1-based; 0 when there is no dot
RFindDot(s) ==
    LET dots == {k \in 1..Len(s) : s[k] = "."}
    IN IF dots = {} THEN 0 ELSE CHOOSE k \in dots : \A m \in dots : m <= k

\* PurePath.stem: the name up to its last dot, unless that dot is the first or
\* the last character
Stem(name) ==
    LET p == RFindDot(name)
    IN IF 1 < p /\ p < Len(name) THEN SubSeq(name, 1, p - 1) ELSE name

----------------------------------------------------------------------------
(* Paths *)

Parent(p) == SubSeq(p, 1, Len(p) - 1)

Name(p) == p[Len(p)]

Exists(f, p) == p \in DOMAIN f

IsDir(f, p) == p \in DOMAIN f /\ f[p].kind = "dir"

IsFile(f, p) == p \in DOMAIN f /\ f[p].kind = "file"

\* the entries directly inside directory d
Children(f, d) == {p \in DOMAIN f : Len(p) = Len(d) + 1 /\ Parent(p) = d}

Put(f, p, node) == [q \in DOMAIN f \cup {p} |-> IF q = p THEN node ELSE f[q]]

DirNode == [kind |-> "dir"]

FileNode(data) == [kind |-> "file", data |-> data]

----------------------------------------------------------------------------
(* Images: [mode, size, px, palette].  A pixel is the sequence of its      *)
(* channel values (0..255); a palette entry is <<r, g, b, a>>, its alpha   *)
(* being 255 unless the file carries palette transparency.                 *)

White == <<255, 255, 255>>

Image(mode, size, px, palette) ==
    [mode |-> mode, size |-> size, px |-> px, palette |-> palette]

\* Image.new(mode, size, color)
New(mode, size, color) ==
    Image(mode, size, [k \in 1..(size[1] * size[2]) |-> color], <<>>)

\* the colour a pixel of the given mode shows, as <<r, g, b>>
PixelRGB(mode, palette, p) ==
    CASE mode \in {"RGB", "RGBA"} -> <<p[1], p[2], p[3]>>
      [] mode \in {"L", "LA", "1"} -> <<p[1], p[1], p[1]>>
      [] mode \in {"P", "PA"} ->
            LET e == palette[p[1] + 1] IN <<e[1], e[2], e[3]>>

\* the alpha of a pixel of the given mode (255 when the mode has none)
PixelAlpha(mode, palette, p) ==
    CASE mode = "RGBA" -> p[4]
      [] mode \in {"LA", "PA"} -> p[2]
      [] mode = "P" -> palette[p[1] + 1][4]
      [] OTHER -> 255

\* Image.convert(mode) for the two targets the program asks for
Convert(im, mode) ==
    CASE mode = "RGBA" ->
            Image("RGBA", im.size,
                  [k \in 1..Len(im.px) |->
                      PixelRGB(im.mode, im.palette, im.px[k])
                        \o <<PixelAlpha(im.mode, im.palette, im.px[k])>>],
                  <<>>)
      [] mode = "RGB" ->
            Image("RGB", im.size,
                  [k \in 1..Len(im.px) |-> PixelRGB(im.mode, im.palette, im.px[k])],
                  <<>>)

\* Image.split()[-1]: the last band, one value per pixel
LastBand(im) == [k \in 1..Len(im.px) |-> im.px[k][Len(im.px[k])]]

\* Pillow's DIV255: (tmp = a + 128, ((tmp >> 8) + tmp) >> 8)
DIV255(a) == LET tmp == a + 128 IN ((tmp \div 256) + tmp) \div 256

\* Pillow's BLEND8(mask, in1, in2)
BLEND8(mask, in1, in2) == DIV255(in1 * (255 - mask) + in2 * mask)

NoMask == <<>>

\* Image.paste(im, mask=mask) at the origin, im of the size of dst
Paste(dst, im, mask) ==
    Image(dst.mode, dst.size,
          [k \in 1..Len(dst.px) |->
              LET src == PixelRGB(im.mode, im.palette, im.px[k])
              IN IF mask = NoMask
                    THEN src
                    ELSE [c \in 1..3 |-> BLEND8(mask[k], dst.px[k][c], src[c])]],
          <<>>)

\* Normalize with the paste made without its mask
NormalizeNoMask(im) ==
    IF im.mode \in {"RGBA", "LA", "P"}
    THEN LET rgb_img == New("RGB", im.size, White)
             im2 == IF im.mode = "P" THEN Convert(im, "RGBA") ELSE im
         IN [img |-> Paste(rgb_img, im2, NoMask),
             ops |-> <<"new">>
                       \o (IF im.mode = "P" THEN <<"convert_RGBA">> ELSE <<>>)
                       \o <<"paste">>]
    ELSE IF im.mode # "RGB"
         THEN [img |-> Convert(im, "RGB"), ops |-> <<"convert_RGB">>]
         ELSE [img |-> im, ops |-> <<>>]

\* Normalize with the second test written as: mode not in ('RGB', 'L')
NormalizeKeepsGray(im) ==
    IF im.mode \in {"RGBA", "LA", "P"}
    THEN LET rgb_img == New("RGB", im.size, White)
             im2 == IF im.mode = "P" THEN Convert(im, "RGBA") ELSE im
             mask == IF im2.mode \in {"RGBA", "LA"} THEN LastBand(im2) ELSE NoMask
         IN [img |-> Paste(rgb_img, im2, mask),
             ops |-> <<"new">>
                       \o (IF im.mode = "P" THEN <<"convert_RGBA">> ELSE <<>>)
                       \o <<"paste">>]
    ELSE IF im.mode \notin {"RGB", "L"}
         THEN [img |-> Convert(im, "RGB"), ops |-> <<"convert_RGB">>]
         ELSE [img |-> im, ops |-> <<>>]

\* lines 63-71: what convert_tiff_to_jpeg does to the opened image before
\* saving; ops lists the Pillow calls made, img is what img.save receives
Normalize(im) ==
    IF im.mode \in {"RGBA", "LA", "P"}
    THEN LET rgb_img == New("RGB", im.size, White)
             im2 == IF im.mode = "P" THEN Convert(im, "RGBA") ELSE im
             mask == IF im2.mode \in {"RGBA", "LA"} THEN LastBand(im2) ELSE NoMask
         IN [img |-> Paste(rgb_img, im2, mask),
             ops |-> <<"new">>
                       \o (IF im.mode = "P" THEN <<"convert_RGBA">> ELSE <<>>)
                       \o <<"paste">>]
    ELSE IF im.mode # "RGB"
         THEN [img |-> Convert(im, "RGB"), ops |-> <<"convert_RGB">>]
         ELSE [img |-> im, ops |-> <<>>]

----------------------------------------------------------------------------
(* The images the model draws from *)

Levels == {0, 100, 255}

Alphas == {0, 1, 128, 254, 255}

Colours == {<<0, 0, 0>>, <<200, 100, 0>>, <<255, 255, 255>>}

Palettes ==
    { << <<200, 100, 0, 255>>, <<0, 0, 0, 255>> >>,     \* no transparency
      << <<200, 100, 0, 255>>, <<0, 0, 0, 0>> >>,       \* index 1 transparent
      << <<0, 0, 0, 128>>, <<255, 255, 255, 255>> >> }  \* index 0 half transparent

Modes == {"RGB", "RGBA", "L", "LA", "1", "P", "PA"}

PixelsOf(mode) ==
    CASE mode = "RGB" -> Colours
      [] mode = "RGBA" -> {c \o <<a>> : c \in Colours, a \in Alphas}
      [] mode = "L" -> {<<l>> : l \in Levels}
      [] mode = "LA" -> {<<l, a>> : l \in Levels, a \in Alphas}
      [] mode = "1" -> {<<0>>, <<255>>}
      [] mode = "P" -> {<<0>>, <<1>>}
      [] mode = "PA" -> {<<x, a>> : x \in {0, 1}, a \in Alphas}

PalettesOf(mode) == IF mode \in {"P", "PA"} THEN Palettes ELSE {<<>>}

Sizes == {s \in (1..MaxPixels) \X (1..MaxPixels) : s[1] * s[2] <= MaxPixels}

Images ==
    UNION { UNION { { Image(m, s, px, pal) :
                        px \in [1..(s[1] * s[2]) -> PixelsOf(m)],
                        pal \in PalettesOf(m) } : s \in Sizes } : m \in Modes }

NoImage == Image("", <<0, 0>>, <<>>, <<>>)

----------------------------------------------------------------------------
(* Names and the command line *)

DotTif == <<".", "t", "i", "f">>

DotTiff == <<".", "t", "i", "f", "f">>

DotTIF == <<".", "T", "I", "F">>

DotTIFF == <<".", "T", "I", "F", "F">>

DotTifMixed == <<".", "T", "i", "f">>

DotJpg == <<".", "j", "p", "g">>

\* line 39
tiff_extensions == <<DotTif, DotTiff, DotTIF, DotTIFF>>

S_in == <<"i", "n">>

S_out == <<"o", "u", "t">>

S_sub == <<"s", "u", "b">>

S_jpeg_copies == <<"j", "p", "e", "g", "_", "c", "o", "p", "i", "e", "s">>

InDir == <<S_in>>

OutDir == <<S_out>>

OutDeep == <<S_out, S_sub>>

NoArg == <<>>

\* line 104: default=95
DefaultQuality == 95

\* the choices written as range(0, 101)
QualityChoicesFromZero == 0..100

\* line 104: choices=range(1, 101)
QualityChoices == 1..100

Strip(s) ==
    LET keep == {k \in 1..Len(s) : s[k] # " "}
    IN IF keep = {} THEN <<>>
       ELSE SubSeq(s, CHOOSE k \in keep : \A m \in keep : k <= m,
                      CHOOSE k \in keep : \A m \in keep : m <= k)

Unsigned(s) == IF s # <<>> /\ s[1] \in {"+", "-"} THEN Tail(s) ELSE s

\* whether int(s) returns (surrounding blanks, one sign, then decimal digits)
IsIntLiteral(s) ==
    LET d == Unsigned(Strip(s))
    IN d # <<>> /\ \A k \in 1..Len(d) : d[k] \in Digits

RECURSIVE DigitsValue(_)
DigitsValue(d) ==
    IF d = <<>> THEN 0
    ELSE 10 * DigitsValue(SubSeq(d, 1, Len(d) - 1)) + DigitVal(d[Len(d)])

\* int(s) for an s that IsIntLiteral
ParseInt(s) ==
    LET t == Strip(s)
    IN IF t[1] = "-" THEN 0 - DigitsValue(Unsigned(t)) ELSE DigitsValue(Unsigned(t))

----------------------------------------------------------------------------
(* File contents *)

Tiff(im) == [fmt |-> "TIFF", img |-> im, quality |-> 0]

Garbage == [fmt |-> "garbage", img |-> NoImage, quality |-> 0]

\* a file img.save opened for writing and did not finish
Partial == [fmt |-> "partial", img |-> NoImage, quality |-> 0]

\* what img.save(output_filename, 'JPEG', quality=quality, ...) stores
Jpeg(im, q) == [fmt |-> "JPEG", img |-> im, quality |-> q]

ImgA == Image("RGB", <<1, 1>>, << <<200, 100, 0>> >>, <<>>)

ImgB == Image("RGBA", <<1, 1>>, << <<0, 0, 0, 0>> >>, <<>>)

\* Image.open succeeds on a regular file that holds a TIFF
Decodable(f, p) == IsFile(f, p) /\ f[p].data.fmt = "TIFF"

----------------------------------------------------------------------------
(* Initial states: a command line and a filesystem *)

FileName(stem, ext) == stem \o ext

InputEntry(stem, ext) == InDir \o <<FileName(stem, ext)>>

TiffNamed ==
    { InputEntry(<<"a">>, DotTif), InputEntry(<<"a">>, DotTiff),
      InputEntry(<<"a">>, DotTIF), InputEntry(<<"b">>, DotTif),
      InputEntry(<<"b">>, DotTIFF) }

MixedCase == InputEntry(<<"a">>, DotTifMixed)

JpgInInput == InputEntry(<<"a">>, DotJpg)

Nested == InDir \o <<S_sub, FileName(<<"x">>, DotTif)>>

JpgInOut == OutDir \o <<FileName(<<"a">>, DotJpg)>>

CandidatePaths == TiffNamed \cup {MixedCase, JpgInInput, Nested, JpgInOut}

\* what an entry of the initial filesystem may be
NodesFor(p) ==
    IF p \in TiffNamed /\ EndsWith(Name(p), DotTif)
    THEN {DirNode, FileNode(Garbage), FileNode(Tiff(ImgA)), FileNode(Tiff(ImgB))}
    ELSE IF p \in TiffNamed
    THEN {FileNode(Garbage), FileNode(Tiff(ImgB))}
    ELSE IF p = JpgInInput
    THEN {DirNode, FileNode(Jpeg(ImgA, 50))}
    ELSE IF p = JpgInOut
    THEN {FileNode(Jpeg(ImgA, 50))}
    ELSE {FileNode(Tiff(ImgA))}

ProperPrefixes(p) == {SubSeq(p, 1, k) : k \in 1..(Len(p) - 1)}

\* the filesystem holding the entries of c, their parent directories and InDir
Tree(c) ==
    LET dirs == UNION {ProperPrefixes(p) : p \in DOMAIN c} \cup {InDir}
    IN [q \in DOMAIN c \cup dirs |-> IF q \in DOMAIN c THEN c[q] ELSE DirNode]

EmptyFs == [q \in {} |-> DirNode]

InputIsFile == [q \in {InDir} |-> FileNode(Garbage)]

Filesystems(n) ==
    {EmptyFs, InputIsFile}
      \cup { Tree(c) : c \in UNION { {d \in [S -> UNION {NodesFor(p) : p \in S}] :
                                          \A p \in S : d[p] \in NodesFor(p)} :
                                      S \in {T \in SUBSET CandidatePaths :
                                                Cardinality(T) <= n} } }

OutputArgs == {NoArg, InDir, OutDir, OutDeep}

\* -q values of the batch specification: absent, "100", "101"
BatchQualityArgs == {NoArg, <<"1", "0", "0">>, <<"1", "0", "1">>}

\* -q values of the argument specification
AllQualityArgs ==
    BatchQualityArgs
      \cup { <<"0">>, <<"1">>, <<"9", "5">>, <<"-", "5">>, <<"+", "7">>,
             <<" ", "7">>, <<"0", "0", "7">>, <<"9", ".", "5">>, <<"a", "b", "c">>,
             <<"1", "0", "0", "0">>, <<"-">>, <<" ">> }

InitWith(qargs, n) ==
    /\ pc = "main"
    /\ argv \in [input_folder : {InDir}, output : OutputArgs, quality : qargs]
    /\ quality = 0
    /\ output_path = <<>>
    /\ fs \in Filesystems(n)
    /\ fs0 = fs
    /\ ext_i = 1
    /\ tiff_files = <<>>
    /\ i = 0
    /\ converted_count = 0
    /\ error_count = 0
    /\ stdout = <<>>
    /\ calls = {}
    /\ img = NoImage
    /\ enc = [img |-> NoImage, ops |-> <<>>]

Init == InitWith(BatchQualityArgs, MaxFiles)

----------------------------------------------------------------------------
(* main(), lines 100-109 *)

\* parser.parse_args(): type=int, then choices=range(1, 101); default=95
ParseArgs ==
    /\ pc = "main"
    /\ IF argv.quality = NoArg
       THEN quality' = DefaultQuality /\ pc' = "convert"
       ELSE IF IsIntLiteral(argv.quality) /\ ParseInt(argv.quality) \in QualityChoices
       THEN quality' = ParseInt(argv.quality) /\ pc' = "convert"
       ELSE quality' = quality /\ pc' = "usage_error"
    /\ UNCHANGED << argv, output_path, fs, fs0, ext_i, tiff_files, i,
                    converted_count, error_count, stdout, calls, img, enc >>

----------------------------------------------------------------------------
(* convert_tiff_to_jpeg(), lines 13-98 *)

input_path == argv.input_folder

\* CheckInput without the early return of lines 25-27
CheckInputNoReturn ==
    /\ pc = "convert"
    /\ calls' = calls \cup {<<"exists", input_path>>}
    /\ pc' = "mkdir"
    /\ output_path' = IF argv.output = NoArg
                      THEN input_path \o <<S_jpeg_copies>>
                      ELSE argv.output
    /\ UNCHANGED << argv, quality, fs, fs0, ext_i, tiff_files, i,
                    converted_count, error_count, stdout, img, enc >>

\* lines 24-33: the existence check and the choice of the output folder
CheckInput ==
    /\ pc = "convert"
    /\ calls' = calls \cup {<<"exists", input_path>>}
    /\ IF ~Exists(fs, input_path)
       THEN pc' = "returned_missing" /\ output_path' = output_path
       ELSE /\ pc' = "mkdir"
            /\ output_path' = IF argv.output = NoArg
                              THEN input_path \o <<S_jpeg_copies>>
                              ELSE argv.output
    /\ UNCHANGED << argv, quality, fs, fs0, ext_i, tiff_files, i,
                    converted_count, error_count, stdout, img, enc >>

Prefixes(p) == {SubSeq(p, 1, k) : k \in 1..Len(p)}

\* output_path.mkdir(parents=True, exist_ok=True) can succeed
MkdirPossible(f, p) == \A d \in Prefixes(p) : Exists(f, d) => IsDir(f, d)

MkdirResult(f, p) ==
    [q \in DOMAIN f \cup Prefixes(p) |-> IF q \in DOMAIN f THEN f[q] ELSE DirNode]

\* line 36; an exception here is not caught: the run ends with a traceback
Mkdir ==
    /\ pc = "mkdir"
    /\ calls' = calls \cup {<<"mkdir", output_path>>}
    /\ \/ /\ MkdirPossible(fs, output_path)
          /\ fs' = MkdirResult(fs, output_path)
          /\ pc' = "glob"
       \/ /\ ~MkdirPossible(fs, output_path)      \* FileExistsError, NotADirectoryError
          /\ fs' = fs
          /\ pc' = "crashed"
       \/ /\ ~IsDir(fs, output_path)              \* PermissionError, OSError
          /\ MkdirPossible(fs, output_path)
          /\ fs' = fs
          /\ pc' = "crashed"
    /\ UNCHANGED << argv, quality, output_path, fs0, ext_i, tiff_files, i,
                    converted_count, error_count, stdout, img, enc >>

Lower(s) ==
    [k \in 1..Len(s) |->
        CASE s[k] = "T" -> "t" [] s[k] = "I" -> "i" [] s[k] = "F" -> "f" [] OTHER -> s[k]]

\* Glob matching names without regard to case
GlobIgnoreCase(f, d, ext) ==
    IF IsDir(f, d)
    THEN {p \in Children(f, d) : EndsWith(Lower(Name(p)), Lower(ext))}
    ELSE {}

\* input_path.glob("*" + ext): the entries of the directory whose name ends with ext
Glob(f, d, ext) ==
    IF IsDir(f, d) THEN {p \in Children(f, d) : EndsWith(Name(p), ext)} ELSE {}

\* the orders in which a directory scan may deliver the entries of S
Orders(S) ==
    {o \in [1..Cardinality(S) -> S] : \A p \in S : \E k \in 1..Cardinality(S) : o[k] = p}

\* lines 42-43: one turn of the loop over tiff_extensions
GlobExt ==
    /\ pc = "glob"
    /\ ext_i <= Len(tiff_extensions)
    /\ calls' = calls \cup {<<"glob", input_path>>}
    /\ \E o \in Orders(Glob(fs, input_path, tiff_extensions[ext_i])) :
          tiff_files' = tiff_files \o o
    /\ ext_i' = ext_i + 1
    /\ UNCHANGED << pc, argv, quality, output_path, fs, fs0, i,
                    converted_count, error_count, stdout, img, enc >>

\* lines 45-56: the early return on an empty enumeration, else the counters start
CheckEmpty ==
    /\ pc = "glob"
    /\ ext_i > Len(tiff_extensions)
    /\ IF tiff_files = <<>>
       THEN pc' = "returned_empty"
       ELSE pc' = "loop"
    /\ converted_count' = 0
    /\ error_count' = 0
    /\ i' = 0
    /\ UNCHANGED << argv, quality, output_path, fs, fs0, ext_i, tiff_files,
                    stdout, calls, img, enc >>

\* the destination named after the whole source name
output_filename_same_name(out, tiff_file) == out \o <<Name(tiff_file)>>

\* line 74: output_path / f"{tiff_file.stem}.jpg"
output_filename(out, tiff_file) == out \o <<FileName(Stem(Name(tiff_file)), DotJpg)>>

\* lines 86 and 90: the line printed for file number k
Line(k, tiff_file, ok) ==
    [idx |-> k, total |-> Len(tiff_files), name |-> Name(tiff_file), ok |-> ok]

\* lines 85-86
CountConverted(tiff_file) ==
    /\ converted_count' = converted_count + 1
    /\ error_count' = error_count
    /\ stdout' = Append(stdout, Line(i + 1, tiff_file, TRUE))

\* the handler printing the error without counting it
CountErrorUncounted(tiff_file) ==
    /\ error_count' = error_count
    /\ converted_count' = converted_count
    /\ stdout' = Append(stdout, Line(i + 1, tiff_file, FALSE))

\* lines 88-90: except Exception
CountError(tiff_file) ==
    /\ error_count' = error_count + 1
    /\ converted_count' = converted_count
    /\ stdout' = Append(stdout, Line(i + 1, tiff_file, FALSE))

\* a save that keeps a destination that is already there
SaveOkKeepExisting(f, dest, im, q) ==
    IF Exists(f, dest) THEN f ELSE Put(f, dest, FileNode(Jpeg(im, q)))

\* lines 77-83, img.save: the destination is opened with "w+b" (created or
\* truncated), then the encoder writes it
SaveOk(f, dest, im, q) == Put(f, dest, FileNode(Jpeg(im, q)))

\* img.save raising after the destination was opened: the file is left as far
\* as it was written; a Pillow that removes a file it created leaves nothing
SaveFailed(f, dest) ==
    {Put(f, dest, FileNode(Partial))} \cup (IF Exists(f, dest) THEN {} ELSE {f})

\* lines 58-90: one iteration of the loop over tiff_files
ConvertFile ==
    /\ pc = "loop"
    /\ i < Len(tiff_files)
    /\ LET tiff_file == tiff_files[i + 1]
           dest == output_filename(output_path, tiff_file)
       IN \/ \* Image.open raises: not a readable TIFF file
             /\ ~Decodable(fs, tiff_file)
             /\ fs' = fs
             /\ calls' = calls \cup {<<"open", tiff_file>>}
             /\ CountError(tiff_file)
          \/ \* reading or normalising the image raises (I/O error, MemoryError)
             /\ Decodable(fs, tiff_file)
             /\ fs' = fs
             /\ calls' = calls \cup {<<"open", tiff_file>>}
             /\ CountError(tiff_file)
          \/ \* img.save cannot open the destination (a directory, no permission)
             /\ Decodable(fs, tiff_file)
             /\ fs' = fs
             /\ calls' = calls \cup {<<"open", tiff_file>>, <<"open_w", dest>>}
             /\ CountError(tiff_file)
          \/ \* img.save raises after opening the destination (encoder, disk full)
             /\ Decodable(fs, tiff_file)
             /\ ~IsDir(fs, dest)
             /\ fs' \in SaveFailed(fs, dest)
             /\ calls' = calls \cup {<<"open", tiff_file>>, <<"write", dest>>}
             /\ CountError(tiff_file)
          \/ \* the file is converted
             /\ Decodable(fs, tiff_file)
             /\ ~IsDir(fs, dest)
             /\ fs' = SaveOk(fs, dest, Normalize(fs[tiff_file].data.img).img, quality)
             /\ calls' = calls \cup {<<"open", tiff_file>>, <<"write", dest>>}
             /\ CountConverted(tiff_file)
    /\ i' = i + 1
    /\ UNCHANGED << pc, argv, quality, output_path, fs0, ext_i, tiff_files, img, enc >>

\* lines 92-98: the summary after the last file
Summary ==
    /\ pc = "loop"
    /\ i = Len(tiff_files)
    /\ pc' = "done"
    /\ UNCHANGED << argv, quality, output_path, fs, fs0, ext_i, tiff_files, i,
                    converted_count, error_count, stdout, calls, img, enc >>

Next ==
    \/ ParseArgs
    \/ CheckInput
    \/ Mkdir
    \/ GlobExt
    \/ CheckEmpty
    \/ ConvertFile
    \/ Summary

Spec == Init /\ [][Next]_vars

\* the run as scheduled: a single thread that takes its next step
FairSpec == Spec /\ WF_vars(Next)

\* the argument parser over a wider set of -q values
SpecArgs == InitWith(AllQualityArgs, MaxFilesArgs) /\ [][Next]_vars

----------------------------------------------------------------------------
(* The normalisation of one opened image, lines 61-71 *)

InitImage ==
    /\ pc = "opened"
    /\ img \in Images
    /\ enc = [img |-> NoImage, ops |-> <<>>]
    /\ argv = [input_folder |-> InDir, output |-> NoArg, quality |-> NoArg]
    /\ quality = DefaultQuality
    /\ output_path = <<>>
    /\ fs = EmptyFs
    /\ fs0 = fs
    /\ ext_i = 1
    /\ tiff_files = <<>>
    /\ i = 0
    /\ converted_count = 0
    /\ error_count = 0
    /\ stdout = <<>>
    /\ calls = {}

NormalizeImage ==
    /\ pc = "opened"
    /\ enc' = Normalize(img)
    /\ pc' = "normalized"
    /\ UNCHANGED << argv, quality, output_path, fs, fs0, ext_i, tiff_files, i,
                    converted_count, error_count, stdout, calls, img >>

SpecImage == InitImage /\ [][NormalizeImage]_vars

----------------------------------------------------------------------------
(* Vocabulary of the properties *)

Terminated == pc \in {"usage_error", "returned_missing", "crashed", "returned_empty", "done"}

Discovered == {tiff_files[k] : k \in 1..Len(tiff_files)}

Dest(k) == output_filename(output_path, tiff_files[k])

OkLines == {k \in 1..Len(stdout) : stdout[k].ok}

ErrorLines == {k \in 1..Len(stdout) : ~stdout[k].ok}

HasTiffExtension(name) == \E e \in 1..Len(tiff_extensions) : EndsWith(name, tiff_extensions[e])

\* the number of the pattern a name matches, 0 when it matches none
ExtRank(name) ==
    IF HasTiffExtension(name)
    THEN CHOOSE e \in 1..Len(tiff_extensions) : EndsWith(name, tiff_extensions[e])
    ELSE 0

\* the paths whose node differs between two filesystems
Changed(f, g) ==
    {p \in DOMAIN f \cup DOMAIN g : ~(p \in DOMAIN f /\ p \in DOMAIN g /\ f[p] = g[p])}

Written == {c[2] : c \in {d \in calls : d[1] = "write"}}

\* the JPEG a successful conversion of source file p stores
JpegOf(p) == FileNode(Jpeg(Normalize(fs0[p].data.img).img, quality))

----------------------------------------------------------------------------
(* C1: per-file failure isolation.  Whatever subset of the discovered files *)
(* fails, the loop handles every file in turn, a file that cannot be        *)
(* decoded is an Error, converted_count is the number of files that did not *)
(* fail and error_count the number that did, the destination of every file  *)
(* that did not fail exists, and no failure ends the run before the last    *)
(* file.                                                                    *)
C1_FailureIsolation ==
    /\ pc \in {"loop", "done"} =>
          /\ Len(stdout) = i
          /\ \A k \in 1..i : stdout[k].name = Name(tiff_files[k])
          /\ converted_count = Cardinality(OkLines)
          /\ error_count = Cardinality(ErrorLines)
          /\ converted_count = i - error_count
          /\ \A k \in 1..i : ~Decodable(fs0, tiff_files[k]) => k \in ErrorLines
          /\ \A k \in OkLines : IsFile(fs, Dest(k))
    /\ pc = "done" => i = Len(tiff_files)
    /\ pc \in {"crashed", "returned_missing", "usage_error"} => tiff_files = <<>> /\ stdout = <<>>

\* a finished batch in which a failing file was followed by a converted one
C1_Witness ==
    /\ pc = "done"
    /\ \E j \in ErrorLines : \E k \in OkLines : j < k
    /\ converted_count = Len(tiff_files) - error_count

(* C2: a missing input directory.  The run returns having only asked whether *)
(* the directory exists: the filesystem is as before the call, no directory  *)
(* was created, nothing was enumerated, opened or written, and no file was   *)
(* counted.                                                                  *)
C2_MissingInputNoOp ==
    ~Exists(fs0, InDir) =>
        /\ fs = fs0
        /\ calls \subseteq {<<"exists", InDir>>}
        /\ converted_count = 0 /\ error_count = 0
        /\ tiff_files = <<>> /\ stdout = <<>>
        /\ pc \in {"main", "usage_error", "convert", "returned_missing"}

C2_Witness == pc = "returned_missing" /\ ~Exists(fs0, InDir) /\ calls # {}

(* C3: originals untouched.  Every discovered source still exists with the  *)
(* content it had before the run; whatever the output directory, every path *)
(* the run writes is <stem>.jpg of a discovered source inside the output    *)
(* directory and is not the path of a discovered source, and every other    *)
(* difference from the initial filesystem is a created directory.           *)
C3_OriginalsUntouched ==
    /\ \A p \in Discovered : Exists(fs, p) /\ fs[p] = fs0[p]
    /\ \A w \in Written :
          /\ Parent(w) = output_path
          /\ EndsWith(Name(w), DotJpg)
          /\ \E p \in Discovered : Name(w) = Stem(Name(p)) \o DotJpg
          /\ w \notin Discovered
    /\ \A p \in Changed(fs0, fs) :
          \/ p \in Written
          \/ p \notin DOMAIN fs0 /\ fs[p] = DirNode /\ p \in Prefixes(output_path)

\* a finished, mixed run that wrote into the input directory itself
C3_Witness ==
    /\ pc = "done"
    /\ output_path = InDir
    /\ converted_count >= 1 /\ error_count >= 1
    /\ \E w \in Written : Parent(w) = InDir /\ IsFile(fs, w)

(* C4: no partial output on failure.  After the iteration of a file that is *)
(* recorded as an Error, its destination <stem>.jpg does not exist in the   *)
(* output directory.                                                        *)
C4_NoDestinationAfterError ==
    (pc \in {"loop", "done"} /\ i >= 1 /\ i \in ErrorLines) => ~Exists(fs, Dest(i))

(* C5: quality bound enforcement.  A -q value that is not an integer in     *)
(* 1..100 ends the run at argument parsing with no filesystem call made and *)
(* nothing changed; an integer in 1..100 (and the default) reaches the      *)
(* conversion with that value; past argument parsing the quality is always  *)
(* in 1..100.                                                               *)
C5_QualityValidated ==
    /\ argv.quality \in { <<"0">>, <<"1", "0", "1">>, <<"-", "5">>, <<"9", ".", "5">>,
                          <<"a", "b", "c">>, <<"1", "0", "0", "0">>, <<"-">>, <<" ">> }
          => /\ pc \in {"main", "usage_error"}
             /\ calls = {} /\ fs = fs0 /\ stdout = <<>>
    /\ pc # "main" =>
          /\ argv.quality = NoArg => pc # "usage_error" /\ quality = 95
          /\ argv.quality = <<"1">> => pc # "usage_error" /\ quality = 1
          /\ argv.quality = <<"1", "0", "0">> => pc # "usage_error" /\ quality = 100
          /\ argv.quality = <<"9", "5">> => pc # "usage_error" /\ quality = 95
          /\ argv.quality \in {<<"+", "7">>, <<" ", "7">>, <<"0", "0", "7">>}
                => pc # "usage_error" /\ quality = 7
    /\ pc = "usage_error" => calls = {} /\ fs = fs0
    /\ pc \notin {"main", "usage_error"} => quality \in 1..100
    /\ calls # {} => quality \in 1..100

\* 101 is refused although the input directory holds a file to convert
C5_Witness ==
    /\ pc = "usage_error"
    /\ argv.quality = <<"1", "0", "1">>
    /\ \E p \in Children(fs, InDir) : Decodable(fs, p)

(* C6: empty input.  When no regular file directly inside the existing      *)
(* input directory has a name ending in .tif, .tiff, .TIF or .TIFF, the run *)
(* ends with both counters 0 and has written no file.                       *)
C6_EmptyInputCountsNothing ==
    ( /\ IsDir(fs0, InDir)
      /\ \A p \in Children(fs0, InDir) : IsFile(fs0, p) => ~HasTiffExtension(Name(p)) )
        => /\ converted_count = 0 /\ error_count = 0
           /\ Written = {}

(* C7: alpha compositing.  For a source of mode RGBA, LA or P (expanded to  *)
(* RGBA), the buffer given to the encoder is an RGB image of the same size; *)
(* a pixel of alpha 0 is white, a pixel of alpha 255 has the source colour, *)
(* and every pixel is the blend src*alpha + white*(1-alpha) rounded to the  *)
(* nearest integer.  For every source mode the encoder gets three channels. *)
C7_AlphaComposite ==
    pc = "normalized" =>
        /\ enc.img.mode = "RGB"
        /\ \A k \in 1..Len(enc.img.px) : Len(enc.img.px[k]) = 3
        /\ img.mode \in {"RGBA", "LA", "P"} =>
              /\ enc.img.size = img.size
              /\ Len(enc.img.px) = Len(img.px)
              /\ \A k \in 1..Len(img.px) :
                    LET a == PixelAlpha(img.mode, img.palette, img.px[k])
                        src == PixelRGB(img.mode, img.palette, img.px[k])
                        out == enc.img.px[k]
                    IN /\ a = 0 => out = White
                       /\ a = 255 => out = src
                       /\ \A c \in 1..3 :
                             LET exact == src[c] * a + 255 * (255 - a)
                             IN /\ 255 * out[c] - exact <= 127
                                /\ exact - 255 * out[c] <= 127

\* a composited image with a half transparent, coloured pixel
C7_Witness ==
    /\ pc = "normalized"
    /\ img.mode \in {"RGBA", "LA", "P"}
    /\ \E k \in 1..Len(img.px) :
          /\ PixelAlpha(img.mode, img.palette, img.px[k]) = 128
          /\ PixelRGB(img.mode, img.palette, img.px[k]) # White
          /\ enc.img.px[k] # White
          /\ enc.img.px[k] # PixelRGB(img.mode, img.palette, img.px[k])

(* C8 as stated: an RGB or plain grayscale source is encoded as-is, with no *)
(* conversion and no compositing; only modes other than RGB, grayscale and  *)
(* the transparency-carrying ones are converted to RGB.                     *)
C8_GrayscaleAsIs ==
    pc = "normalized" =>
        /\ img.mode \in {"RGB", "L"} => enc.ops = <<>> /\ enc.img = img
        /\ enc.ops = <<"convert_RGB">> => img.mode \notin {"RGB", "L", "RGBA", "LA", "P", "PA"}

(* C8 amended: an RGB source is encoded as-is; RGBA, LA and P sources are   *)
(* composited and not converted to RGB; every other mode, plain grayscale   *)
(* included, is converted to RGB and nothing else is done to it.            *)
C8_NormalizationDispatch ==
    pc = "normalized" =>
        /\ img.mode = "RGB" => enc.ops = <<>> /\ enc.img = img
        /\ img.mode \in {"RGBA", "LA", "P"} =>
              /\ enc.ops \in {<<"new", "paste">>, <<"new", "convert_RGBA", "paste">>}
              /\ enc.ops[2] = "convert_RGBA" <=> img.mode = "P"
        /\ img.mode \notin {"RGB", "RGBA", "LA", "P"} =>
              /\ enc.ops = <<"convert_RGB">>
              /\ enc.img.mode = "RGB"
              /\ enc.img # img

\* a plain grayscale source that was converted to RGB
C8_Witness ==
    /\ pc = "normalized"
    /\ img.mode = "L"
    /\ enc.ops = <<"convert_RGB">>
    /\ enc.img.mode = "RGB"
    /\ enc.img.px[1] = <<img.px[1][1], img.px[1][1], img.px[1][1]>>

(* C9: stem collision.  Discovered files with the same stem have the same   *)
(* destination; every converted file is counted; a destination holds the    *)
(* JPEG of the last file written to it when that file converted, so of two  *)
(* converted files with one stem the later one's image remains; the number  *)
(* of distinct destinations written is at most converted_count.             *)
C9_StemCollision ==
    pc \in {"loop", "done"} =>
        /\ \A j, k \in 1..Len(tiff_files) :
              Stem(Name(tiff_files[j])) = Stem(Name(tiff_files[k])) => Dest(j) = Dest(k)
        /\ converted_count = Cardinality(OkLines)
        /\ \A k \in OkLines :
              (\A m \in (k + 1)..i : Dest(m) # Dest(k)) => fs[Dest(k)] = JpegOf(tiff_files[k])
        /\ Cardinality({Dest(k) : k \in OkLines}) <= converted_count

\* two converted files with one stem and different images: one .jpg, count 2
C9_Witness ==
    /\ pc = "done"
    /\ \E j, k \in OkLines :
          /\ j < k
          /\ Dest(j) = Dest(k)
          /\ JpegOf(tiff_files[j]) # JpegOf(tiff_files[k])
          /\ fs[Dest(k)] = JpegOf(tiff_files[k])
    /\ converted_count = 2
    /\ Cardinality({Dest(k) : k \in OkLines}) < converted_count

\* the state of the enumeration and of the loop
ExactlyOnce ==
    /\ \A p \in Discovered : p \in Children(fs0, InDir) /\ HasTiffExtension(Name(p))
    /\ \A j, k \in 1..Len(tiff_files) : j # k => tiff_files[j] # tiff_files[k]
    /\ \A j, k \in 1..Len(tiff_files) :
          j < k => ExtRank(Name(tiff_files[j])) <= ExtRank(Name(tiff_files[k]))
    /\ pc \in {"loop", "done", "returned_empty"} =>
          Discovered = {p \in Children(fs0, InDir) : HasTiffExtension(Name(p))}
    /\ Len(stdout) = i
    /\ \A k \in 1..i : stdout[k].idx = k /\ stdout[k].name = Name(tiff_files[k])
    /\ converted_count + error_count = i
    /\ error_count = Cardinality(ErrorLines)
    /\ i <= Len(tiff_files)
    /\ pc = "done" => i = Len(tiff_files)

\* one iteration: one more line, exactly one counter one higher
OneOutcome ==
    i' # i =>
        /\ i' = i + 1
        /\ Len(stdout') = Len(stdout) + 1
        /\ SubSeq(stdout', 1, Len(stdout)) = stdout
        /\ \/ converted_count' = converted_count + 1 /\ error_count' = error_count
           \/ converted_count' = converted_count /\ error_count' = error_count + 1

(* C10: exactly-once processing and termination.  Every run ends; each      *)
(* matching entry is enumerated once, patterns in the order .tif, .tiff,    *)
(* .TIF, .TIFF; the k-th iteration handles the k-th file and prints one     *)
(* line; after it converted_count + error_count = k, exactly one of the two *)
(* having grown by one; every Error is printed and counted.                 *)
C10_ExactlyOnce == []ExactlyOnce /\ [][OneOutcome]_vars /\ <>Terminated

\* a finished run over two files of one pattern, with both outcomes
C10_Witness ==
    /\ pc = "done"
    /\ Len(tiff_files) >= 2
    /\ ExtRank(Name(tiff_files[1])) = ExtRank(Name(tiff_files[2]))
    /\ i = Len(tiff_files)
    /\ converted_count >= 1 /\ error_count >= 1

====
